---- MODULE Spec2Model ----
(***************************************************************************)
(* SociWave backend: the per-tenant monitoring scheduler                   *)
(* (app/scheduler.py), the monitoring cycle (app/services/                 *)
(* monitor_service.py), the Graph API client it calls (app/services/       *)
(* facebook_service.py) and the manual trigger (app/api/monitoring.py).    *)
(*                                                                         *)
(* A run is one invocation of perform_monitoring_cycle together with the   *)
(* caller around it (the scheduled _job_func, the background task of       *)
(* /trigger-monitoring, or a direct call on one MonitorService object).    *)
(* A run advances one blocking call at a time, so runs of different        *)
(* threads interleave at the network calls.                                *)
(***************************************************************************)
EXTENDS Integers, Sequences, FiniteSets, TLC

VARIABLES
    cfg,          \* config table: tenant -> the values ConfigService reads
    rulesDb,      \* rules table: tenant -> (object_id -> Rule)
    jobs,         \* MonitoringScheduler.jobs: tenant -> its Job object
    apJobs,       \* the BackgroundScheduler's job store: job id -> job
    schedRunning, \* BackgroundScheduler.running
    started,      \* main.py has called MonitoringScheduler.start()
    calls,        \* the calls of _schedule_user_job made by API handlers
    last_run,     \* MonitoringScheduler.last_run: tenant -> time (0: no entry)
    now,          \* the clock datetime.utcnow() reads
    services,     \* the MonitorService objects built so far, in order
    runs,         \* the runs started so far, in order
    thread,       \* remote: comment id -> authors of its replies, oldest first
    privateSent,  \* remote: comment ids that got a private reply
    events        \* history: the remote calls issued, rule matches, marks

vars == <<cfg, rulesDb, jobs, apJobs, schedRunning, started, calls, last_run, now,
          services, runs, thread, privateSent, events>>

----------------------------------------------------------------------------
(* Bounds of the model *)

\* cycles (runs) started in one behaviour
MaxCycles == 2

\* scheduling calls the API handlers make in one behaviour
MaxCalls == 3

----------------------------------------------------------------------------
(* Program constants *)

DEFAULT_INTERVAL_SECONDS == 300

max_instances == 5

\* job_defaults "misfire_grace_time": 30, in seconds
misfire_grace_time == 30

\* job_defaults "coalesce": True
coalesce == TRUE

\* The workers of the BackgroundScheduler's executor: the scheduler is built
\* with no executors argument, so its default thread pool serves every
\* tenant's job.
max_workers == 10

\* "limit": 100 of has_replied_to_comment
HasRepliedLimit == 100

\* Python's None, for an Optional[str]
None == "None"

\* An Optional[int]: absent, or a value
Nothing == [some |-> FALSE, val |-> 0]

Some(v) == [some |-> TRUE, val |-> v]

----------------------------------------------------------------------------
(* The world the model runs in: one tenant, its page, two reels.           *)

PAGE == "page1"
USER == "user7"

T1 == <<1, PAGE>>
T2 == <<2, "page2">>
T3 == <<3, "page3">>

Tenants == {T1}

\* The reel list the Graph API returns for the page, in fetch order.
RemoteReels == <<"R1", "R3", "R2">>

\* The top-level comments of each reel, in fetch order.
RemoteComments(reel) ==
    CASE reel = "R1" -> <<"c1", "c2">>
      [] reel = "R2" -> <<"c4", "c3">>
      [] reel = "R3" -> <<"c5">>
      [] OTHER -> <<>>

CommentIds == {"c1", "c2", "c3", "c4", "c5"}

\* comment.message, as a sequence of characters
Message(c) ==
    CASE c = "c1" -> <<"P", "R", "I", "C", "E", "?">>
      [] c = "c2" -> <<"n", "i", "c", "e">>
      [] c = "c3" -> << >>
      [] OTHER -> <<"h", "i">>

\* comment.from_user.id: c4 is a comment the page wrote on its own reel.
Author(c) == IF c = "c4" THEN PAGE ELSE USER

\* The rules stored for the tenant: R1 answers the keyword "price" in
\* public only, R2 answers every comment (empty match_words) and also
\* sends an inbox message. Both are enabled, or both disabled.
RuleIds == {"R1", "R2"}

\* The rules table of a tenant: a rule for R1 that answers in public only
\* and a rule for R2 that also sends an inbox message; the rules of the
\* reels in on are enabled, words gives each rule's match_words. Reel R3
\* has no rule.
RulesWith(on, words) ==
    [r \in RuleIds |->
        IF r = "R1"
        THEN [object_id |-> "R1", match_words |-> words[r],
              reply_message |-> "see inbox", inbox_message |-> None,
              enabled |-> r \in on]
        ELSE [object_id |-> "R2", match_words |-> words[r],
              reply_message |-> "thanks", inbox_message |-> "hello",
              enabled |-> r \in on]]

\* R1 answers the keyword "price", R2 answers every comment.
DefaultWords == [r \in RuleIds |->
                    IF r = "R1" THEN << <<"p", "r", "i", "c", "e">> >> ELSE << >>]

StoredRules(enabled) == RulesWith(IF enabled THEN RuleIds ELSE {}, DefaultWords)

\* Values a rule's match_words takes: none, the wildcard alone or after
\* another keyword, a keyword in lower case, keywords in upper case, and
\* a keyword no comment contains.
KeywordLists ==
    {<< >>,
     << <<".">> >>,
     << <<"z", "z">>, <<".">> >>,
     << <<"p", "r", "i", "c", "e">> >>,
     << <<"z", "z">>, <<"N", "I", "C", "E">> >>,
     << <<"z", "z">> >>}

\* Values config.repliesLimit takes: a page that keeps one nested reply per
\* comment, and the default.
RepliesLimits == {1, 100}

\* Values POST /monitoring/interval is called with.
Intervals == {60, 600}

\* Reply threads a comment may already have when the process starts.
InitialThreads == {<< >>, <<USER>>, <<USER, PAGE>>}

\* The rows of the users table.
Users == {1, 2, 3}

\* The distinct page_id values of the user's config rows ("" stands for a
\* null or empty page_id): user 1 has rows for its page, user 2 has rows
\* for its page and rows with no page id, user 3 has no config rows.
ConfigPages(u) ==
    CASE u = 1 -> {PAGE}
      [] u = 2 -> {"page2", ""}
      [] OTHER -> {}

\* `page_id or "default"`
OrDefault(page_id) == IF page_id = "" THEN "default" ELSE page_id

\* Lines 126-143: the (user, page) pairs start() schedules for the users it
\* loaded; the page query of the users outside pagesOk raises, which leaves
\* pages empty.
Enumerated(users, pagesOk) ==
    UNION {IF u \notin pagesOk \/ ConfigPages(u) = {}
           THEN {<<u, "default">>}
           ELSE {<<u, OrDefault(p)>> : p \in ConfigPages(u)} : u \in users}

\* The tenants start() finds in the tables.
BootTenants == Enumerated(Users, Users)

----------------------------------------------------------------------------
(* Helpers *)

Range(s) == {s[i] : i \in DOMAIN s}

Min(a, b) == IF a < b THEN a ELSE b

Prefix(s, n) == SubSeq(s, 1, Min(n, Len(s)))

\* Python truthiness of an Optional[str]
Truthy(s) == s # None /\ s # ""

\* str.lower() on one character
LowerChar(ch) ==
    CASE ch = "P" -> "p"
      [] ch = "R" -> "r"
      [] ch = "I" -> "i"
      [] ch = "C" -> "c"
      [] ch = "E" -> "e"
      [] ch = "N" -> "n"
      [] OTHER -> ch

Lower(s) == [i \in 1..Len(s) |-> LowerChar(s[i])]

\* Python's `needle in hay` on strings
Contains(hay, needle) ==
    \E i \in 0..(Len(hay) - Len(needle)) : SubSeq(hay, i + 1, i + Len(needle)) = needle

\* A _matches with no wildcard: only the keyword test.
Matches_NoWildcard(comment_text, rule) ==
    \E k \in DOMAIN rule.match_words :
        Contains(Lower(comment_text), Lower(rule.match_words[k]))

\* A _matches that lowers the comment and not the keyword.
Matches_CaseSensitive(comment_text, rule) ==
    IF rule.match_words = << >> \/ <<".">> \in Range(rule.match_words)
    THEN TRUE
    ELSE \E k \in DOMAIN rule.match_words :
             Contains(Lower(comment_text), rule.match_words[k])

\* MonitorService._matches
Matches(comment_text, rule) ==
    LET lower_comment == Lower(comment_text) IN
    IF rule.match_words = << >> \/ <<".">> \in Range(rule.match_words)
    THEN TRUE
    ELSE \E k \in DOMAIN rule.match_words :
             Contains(lower_comment, Lower(rule.match_words[k]))

Ev(r, id, op, out) == [run |-> r, id |-> id, op |-> op, out |-> out]

\* MonitorService.__init__
NewService == [replied_comment_ids |-> {}, comment_reply_cache |-> << >>]

\* The locals of one run before it has done anything.
NewRun(kind, t, svc, pc) ==
    [kind |-> kind, tenant |-> t, svc |-> svc, pc |-> pc, result |-> "none",
     page_id |-> "", replies_limit |-> 0,
     enabled_rules |-> << >>, rules |-> << >>,
     reels |-> << >>, ri |-> 0, comments |-> << >>, ci |-> 0,
     reels_processed |-> 0, total_comments |-> 0, replies_sent |-> 0,
     inbox_sent |-> 0, api_calls |-> 0, summary |-> << >>, run_time |-> 0]

InFlight(r) == runs[r].pc # "done"

\* One more run may start.
WorkerFree == Len(runs) < MaxCycles

\* The running instances APScheduler counts for the tenant's job.
Instances(t) ==
    Cardinality({r \in DOMAIN runs :
        runs[r].kind = "timer" /\ runs[r].tenant = t /\ InFlight(r)})

\* The workers of the executor's pool that are running a job function.
WorkersBusy ==
    Cardinality({r \in DOMAIN runs :
        runs[r].kind = "timer" /\ runs[r].pc \notin {"job_start", "done"}})

----------------------------------------------------------------------------
(* Initial states *)

InitOver(ts, rules, ens, tok, pid, lim, th) ==
    /\ cfg = [t \in ts |->
                [monitoringEnabled |-> t \in ens,
                 accessToken |-> IF tok THEN "token" ELSE "",
                 pageId |-> IF pid THEN t[2] ELSE "",
                 monitoringIntervalSeconds |-> Nothing,
                 repliesLimit |-> lim]]
    /\ rulesDb = [t \in ts |-> rules[t]]
    /\ jobs = << >>
    /\ apJobs = << >>
    /\ schedRunning = FALSE
    /\ started = FALSE
    /\ calls = << >>
    /\ last_run = [t \in ts |-> 0]
    /\ now = 1
    /\ runs = << >>
    /\ thread = [c \in CommentIds |-> IF c = "c1" THEN th ELSE << >>]
    /\ privateSent = {}
    /\ events = {}

\* The tables of the one tenant, its rules enabled or not.
InitWith(en, tok, lim, th, ron) ==
    InitOver(Tenants, [t \in Tenants |-> StoredRules(ron)],
             IF en THEN Tenants ELSE {}, tok, TRUE, lim, th)

\* The process after MonitoringScheduler() was constructed (main.py:70).
Init ==
    /\ \E en \in BOOLEAN, tok \in BOOLEAN, lim \in RepliesLimits, th \in InitialThreads :
           InitWith(en, tok, lim, th, TRUE)
    /\ services = << >>

\* One MonitorService object of a configured tenant, on which
\* perform_monitoring_cycle is called again and again.
ExecInit ==
    /\ \E lim \in RepliesLimits, th \in InitialThreads, on \in SUBSET RuleIds :
           InitOver(Tenants, [t \in Tenants |-> RulesWith(on, DefaultWords)], Tenants,
                    TRUE, TRUE, lim, th)
    /\ services = <<NewService>>

\* One MonitorService object of a configured tenant whose two enabled rules
\* have any of the keyword lists.
MatchInit ==
    /\ \E words \in [RuleIds -> KeywordLists] :
           InitOver(Tenants, [t \in Tenants |-> RulesWith(RuleIds, words)], Tenants,
                    TRUE, TRUE, 1, <<USER, PAGE>>)
    /\ services = <<NewService>>

\* The process of a tenant whose stored access token and page id are each
\* set or empty, after MonitoringScheduler() was constructed.
ConfInit ==
    /\ \E ens \in SUBSET Tenants, tok \in BOOLEAN, pid \in BOOLEAN :
           InitOver(Tenants, [t \in Tenants |-> StoredRules(TRUE)], ens, tok, pid,
                    1, <<USER, PAGE>>)
    /\ services = << >>

\* The process of three users after MonitoringScheduler() was constructed:
\* monitoring is enabled or not for each tenant the tables have rows for
\* (a scope with no rows of its own reads as disabled).
BootInit ==
    /\ \E ens \in SUBSET {T1, T2} :
           InitOver(BootTenants, [t \in BootTenants |-> StoredRules(t \in {T1, T2})],
                    ens, TRUE, TRUE, 100, << >>)
    /\ services = << >>

\* The process of a tenant with credentials whose rule for R1 is enabled,
\* monitoring enabled or not, after MonitoringScheduler() was constructed.
FlagInit ==
    /\ \E ens \in SUBSET Tenants :
           InitOver(Tenants, [t \in Tenants |-> RulesWith({"R1"}, DefaultWords)], ens,
                    TRUE, TRUE, 100, << >>)
    /\ services = << >>

\* The process of two tenants after MonitoringScheduler() was constructed:
\* the first has an enabled rule for R2 whose keyword no comment contains,
\* the second no enabled rule;
\* monitoring is enabled or not for each, the access token stored or not.
LedgerInit ==
    /\ \E ens \in SUBSET {T1, T2}, tok \in BOOLEAN :
           InitOver({T1, T2},
                    [t \in {T1, T2} |->
                        IF t = T1
                        THEN RulesWith({"R2"}, [r \in RuleIds |-> << <<"z", "z">> >>])
                        ELSE StoredRules(FALSE)],
                    ens, tok, TRUE, 100, << >>)
    /\ services = << >>

\* The process of a tenant with credentials, monitoring enabled or not,
\* after MonitoringScheduler() was constructed.
RegInit ==
    /\ \E en \in BOOLEAN : InitWith(en, TRUE, 100, << >>, TRUE)
    /\ services = << >>

\* The process of a tenant with credentials whose monitoring is disabled
\* when the process boots: start() finds nothing to schedule.
LiveInit ==
    /\ InitWith(FALSE, TRUE, 100, << >>, TRUE)
    /\ services = << >>

----------------------------------------------------------------------------
(* ConfigService *)

\* A flag read that finds monitoring enabled whatever is stored.
get_monitoring_enabled_Always(t) == TRUE

\* ConfigService.get_monitoring_enabled
get_monitoring_enabled(t) == cfg[t].monitoringEnabled

\* ConfigService.get_monitoring_interval_seconds
get_monitoring_interval_seconds(t, default) ==
    IF ~cfg[t].monitoringIntervalSeconds.some
    THEN default
    ELSE cfg[t].monitoringIntervalSeconds.val

\* A configuration check that looks at the access token only.
ConfigIncomplete_TokenOnly(t) == cfg[t].accessToken = ""

\* `not config.accessToken or not config.pageId`
ConfigIncomplete(t) == cfg[t].accessToken = "" \/ cfg[t].pageId = ""

\* ConfigService.load_rules
load_rules(t) == rulesDb[t]

----------------------------------------------------------------------------
(* MonitoringScheduler: the registry *)

\* The registry a scheduling call works on: MonitoringScheduler.jobs, the
\* job store of the BackgroundScheduler and its running flag.
Registry == [jobs |-> jobs, apJobs |-> apJobs, running |-> schedRunning]

\* A job id that is new with every call (no id handed to add_job).
job_id_PerCall(t) == <<"monitoring_job_user", t[1], "page", t[2], Len(calls)>>

\* Line 97: job_id = f'monitoring_job_user_{user_id}_page_{page_id}'
job_id(t) == <<"monitoring_job_user", t[1], "page", t[2]>>

\* BackgroundScheduler.remove_job: the job of that id leaves the store; for
\* an id the store does not hold the call raises and both callers ignore it.
StoreRemove(store, id) == [k \in DOMAIN store \ {id} |-> store[k]]

\* MonitoringScheduler._remove_job, on the registry reg
RemoveJob(reg, t) ==
    IF t \notin DOMAIN reg.jobs
    THEN reg
    ELSE [reg EXCEPT !.jobs = [k \in DOMAIN reg.jobs \ {t} |-> reg.jobs[k]],
                     !.apJobs = StoreRemove(@, reg.jobs[t].id)]

\* Lines 89-93: the interval the job gets. dbok is FALSE when a read of the
\* configuration raises: `interval_seconds or DEFAULT_INTERVAL_SECONDS`.
ResolveInterval(t, interval_seconds, dbok) ==
    IF dbok
    THEN IF ~interval_seconds.some
         THEN get_monitoring_interval_seconds(t, DEFAULT_INTERVAL_SECONDS)
         ELSE interval_seconds.val
    ELSE IF interval_seconds.some /\ interval_seconds.val # 0
         THEN interval_seconds.val
         ELSE DEFAULT_INTERVAL_SECONDS

\* The Job add_job returns for an interval trigger: its first run time is
\* one interval after it was added.
NewJob(t, iv) == [tenant |-> t, interval |-> iv, next_run_time |-> now + iv]

\* A replacement that leaves the tenant's previous job in the store.
ReplaceStep_Keep(reg, t) == reg

\* Lines 99-103: the previous job of the tenant is removed from the store.
ReplaceStep(reg, t) ==
    IF t \in DOMAIN reg.jobs
    THEN [reg EXCEPT !.apJobs = StoreRemove(@, job_id(t))]
    ELSE reg

\* An AddStep that leaves a stopped BackgroundScheduler stopped.
AddStep_NoStart(reg, t, iv) ==
    IF job_id(t) \in DOMAIN reg.apJobs
    THEN reg
    ELSE [jobs |-> (t :> [id |-> job_id(t), interval |-> iv]) @@ reg.jobs,
          apJobs |-> (job_id(t) :> NewJob(t, iv)) @@ reg.apJobs,
          running |-> reg.running]

\* Lines 104-110: add_job, which raises for an id the store already holds
\* (the failure is logged); else the job is recorded and a stopped
\* BackgroundScheduler is started.
AddStep(reg, t, iv) ==
    IF job_id(t) \in DOMAIN reg.apJobs
    THEN reg
    ELSE [jobs |-> (t :> [id |-> job_id(t), interval |-> iv]) @@ reg.jobs,
          apJobs |-> (job_id(t) :> NewJob(t, iv)) @@ reg.apJobs,
          running |-> TRUE]

\* MonitoringScheduler._schedule_user_job run from its first line to its
\* last with no other thread in between, the configuration reads succeeding;
\* interval_seconds is Nothing when the caller passes none.
ScheduleUserJob(reg, t, interval_seconds) ==
    IF ~get_monitoring_enabled(t)
    THEN RemoveJob(reg, t)
    ELSE AddStep(ReplaceStep(reg, t), t, ResolveInterval(t, interval_seconds, TRUE))

\* The same call when the configuration reads of the tenants outside readOk
\* raise: lines 91-93 catch the error and the call goes on to add the job.
ScheduleUserJobRead(reg, t, interval_seconds, readOk) ==
    IF t \in readOk
    THEN ScheduleUserJob(reg, t, interval_seconds)
    ELSE AddStep(ReplaceStep(reg, t), t, ResolveInterval(t, interval_seconds, FALSE))

RECURSIVE ScheduleAll(_, _)
ScheduleAll(reg, ts) ==
    IF ts = {} THEN reg
    ELSE LET t == CHOOSE x \in ts : TRUE
         IN ScheduleAll(ScheduleUserJob(reg, t, Nothing), ts \ {t})

\* MonitoringScheduler.start: schedule every (user, page) of the tables.
Start ==
    /\ ~started
    /\ started' = TRUE
    /\ LET reg == ScheduleAll(Registry, DOMAIN cfg)
       IN /\ jobs' = reg.jobs
          /\ apJobs' = reg.apJobs
          /\ schedRunning' = reg.running
    /\ UNCHANGED <<cfg, rulesDb, calls, last_run, now, services, runs, thread, privateSent,
                   events>>

RECURSIVE ScheduleEach(_, _, _)
ScheduleEach(reg, ts, readOk) ==
    IF ts = {} THEN reg
    ELSE LET t == CHOOSE x \in ts : TRUE
         IN ScheduleEach(ScheduleUserJobRead(reg, t, Nothing, readOk), ts \ {t}, readOk)

\* MonitoringScheduler.start against a database whose queries may raise:
\* the user query (then users is empty and start returns), a user's page
\* query, a tenant's configuration reads.
Bootstrap(usersOk, pagesOk, readOk) ==
    /\ ~started
    /\ started' = TRUE
    /\ LET users == IF usersOk THEN Users ELSE {}
           reg == ScheduleEach(Registry, Enumerated(users, pagesOk), readOk)
       IN /\ jobs' = reg.jobs
          /\ apJobs' = reg.apJobs
          /\ schedRunning' = reg.running
    /\ UNCHANGED <<cfg, rulesDb, calls, last_run, now, services, runs, thread, privateSent,
                   events>>

\* The BackgroundScheduler fires the tenant's interval job: the job function
\* is submitted to a worker unless max_instances instances of the job are
\* running, in which case this run time is skipped.
Fire(t) ==
    /\ schedRunning
    /\ \E j \in DOMAIN apJobs : apJobs[j].tenant = t
    /\ IF Instances(t) < max_instances
       THEN runs' = Append(runs, NewRun("timer", t, 0, "job_start"))
       ELSE runs' = runs
    /\ UNCHANGED <<cfg, rulesDb, jobs, apJobs, schedRunning, started, calls, last_run, now,
                   services, thread, privateSent, events>>

\* A tick of the tenant's job while one more run may start.
Tick(t) == WorkerFree /\ Fire(t)

----------------------------------------------------------------------------
(* The API handlers that change the schedule, and their scheduling calls *)

\* A call of _schedule_user_job at its first line. prev is the interval of
\* the tenant's job in the store when the call is made.
NewCall(op, t, interval_seconds) ==
    [op |-> op, tenant |-> t, interval_seconds |-> interval_seconds,
     pc |-> "read", iv |-> 0, outcome |-> "none",
     prev |-> IF job_id(t) \in DOMAIN apJobs
              THEN Some(apJobs[job_id(t)].interval)
              ELSE Nothing]

\* POST /monitoring/enabled: the flag is persisted, then
\* refresh_user_job(user, page) is called on the scheduler singleton.
set_monitoring_enabled(t, enabled) ==
    /\ started
    /\ Len(calls) < MaxCalls
    /\ cfg' = [cfg EXCEPT ![t].monitoringEnabled = enabled]
    /\ calls' = Append(calls, NewCall("refresh_user_job", t, Nothing))
    /\ UNCHANGED <<rulesDb, jobs, apJobs, schedRunning, started, last_run, now,
                   services, runs, thread, privateSent, events>>

\* POST /monitoring/interval: the interval is persisted, then
\* reschedule(user, page, interval_seconds) is called on the singleton.
set_monitoring_interval(t, interval_seconds) ==
    /\ started
    /\ Len(calls) < MaxCalls
    /\ cfg' = [cfg EXCEPT ![t].monitoringIntervalSeconds = Some(interval_seconds)]
    /\ calls' = Append(calls, NewCall("reschedule", t, Some(interval_seconds)))
    /\ UNCHANGED <<rulesDb, jobs, apJobs, schedRunning, started, last_run, now,
                   services, runs, thread, privateSent, events>>

\* The registry becomes reg.
SetRegistry(reg) ==
    /\ jobs' = reg.jobs
    /\ apJobs' = reg.apJobs
    /\ schedRunning' = reg.running

\* _schedule_user_job, lines 82-95: the configuration reads. For a disabled
\* tenant the call goes to _remove_job; a read that raises (dbok FALSE)
\* makes the call go on with the fallback interval.
SchedReadWith(k, dbok) ==
    /\ calls[k].pc = "read"
    /\ LET t == calls[k].tenant IN
       IF dbok /\ ~get_monitoring_enabled(t)
       THEN calls' = [calls EXCEPT ![k].pc = "remove"]
       ELSE calls' = [calls EXCEPT
               ![k].pc = "replace",
               ![k].iv = ResolveInterval(t, calls[k].interval_seconds, dbok)]
    /\ UNCHANGED <<cfg, rulesDb, jobs, apJobs, schedRunning, started, last_run, now,
                   services, runs, thread, privateSent, events>>

\* The reads succeed or raise.
SchedRead(k) == \E dbok \in BOOLEAN : SchedReadWith(k, dbok)

\* _schedule_user_job, lines 87-88: _remove_job and return
SchedRemove(k) ==
    /\ calls[k].pc = "remove"
    /\ SetRegistry(RemoveJob(Registry, calls[k].tenant))
    /\ calls' = [calls EXCEPT ![k].pc = "done", ![k].outcome = "removed"]
    /\ UNCHANGED <<cfg, rulesDb, started, last_run, now,
                   services, runs, thread, privateSent, events>>

\* _schedule_user_job, lines 99-103
SchedReplace(k) ==
    /\ calls[k].pc = "replace"
    /\ SetRegistry(ReplaceStep(Registry, calls[k].tenant))
    /\ calls' = [calls EXCEPT ![k].pc = "add"]
    /\ UNCHANGED <<cfg, rulesDb, started, last_run, now,
                   services, runs, thread, privateSent, events>>

\* _schedule_user_job, lines 104-110
SchedAdd(k) ==
    /\ calls[k].pc = "add"
    /\ LET reg == AddStep(Registry, calls[k].tenant, calls[k].iv) IN
       /\ SetRegistry(reg)
       /\ calls' = [calls EXCEPT
             ![k].pc = "done",
             ![k].outcome = IF reg = Registry THEN "conflict" ELSE "added"]
    /\ UNCHANGED <<cfg, rulesDb, started, last_run, now,
                   services, runs, thread, privateSent, events>>

\* _schedule_user_job, lines 104-110, when add_job raises (an interval that
\* timedelta cannot hold is one cause): line 109 catches and logs the
\* exception, self.jobs is left as it was.
SchedAddRaises(k) ==
    /\ calls[k].pc = "add"
    /\ calls' = [calls EXCEPT ![k].pc = "done", ![k].outcome = "failed"]
    /\ UNCHANGED <<cfg, rulesDb, jobs, apJobs, schedRunning, started, last_run, now,
                   services, runs, thread, privateSent, events>>

\* One step of some scheduling call.
SchedStep ==
    \/ \E k \in DOMAIN calls : SchedRead(k)
    \/ \E k \in DOMAIN calls : SchedRemove(k)
    \/ \E k \in DOMAIN calls : SchedReplace(k)
    \/ \E k \in DOMAIN calls : SchedAdd(k)

\* No scheduling call is in progress.
CallsDone == \A k \in DOMAIN calls : calls[k].pc = "done"

----------------------------------------------------------------------------
(* perform_monitoring_cycle: the loops *)

\* Lines 64-70: the dict returned when no rule is enabled
\* (duration_seconds is left out of the model).
ZeroSummary == [reels |-> 0, comments |-> 0, replies |-> 0, inbox |-> 0]

\* A summary whose 'reels' is the number of reels fetched.
Summarize_FetchedReels(st) ==
    [st EXCEPT !.pc = "returned", !.result = "summary",
               !.summary = [reels |-> Len(st.reels),
                            comments |-> st.total_comments,
                            replies |-> st.replies_sent,
                            inbox |-> st.inbox_sent,
                            api_calls |-> st.api_calls]]

\* Lines 219-226: the return at the end of perform_monitoring_cycle.
Summarize(st) ==
    [st EXCEPT !.pc = "returned", !.result = "summary",
               !.summary = [reels |-> st.reels_processed,
                            comments |-> st.total_comments,
                            replies |-> st.replies_sent,
                            inbox |-> st.inbox_sent,
                            api_calls |-> st.api_calls]]

\* An exception that nothing catches: the run never ends.
Raise_Uncaught(st) == [st EXCEPT !.pc = "uncaught", !.result = "raised"]

\* An exception leaves perform_monitoring_cycle: the caller logs it.
Raise(st) == [st EXCEPT !.pc = "done", !.result = "raised"]

\* A reel loop that looks the reel up in all the rules, enabled or not.
RECURSIVE EnterReel_AnyRule(_, _)
EnterReel_AnyRule(st, i) ==
    IF i > Len(st.reels)
    THEN Summarize(st)
    ELSE IF st.reels[i] \in DOMAIN st.rules
         THEN [st EXCEPT !.ri = i, !.reels_processed = @ + 1, !.pc = "get_comments"]
         ELSE EnterReel_AnyRule(st, i + 1)

\* `for reel in reels:` from reel number i on: a reel without an enabled
\* rule is passed over, a reel with one is counted and its comments fetched.
RECURSIVE EnterReel(_, _)
EnterReel(st, i) ==
    IF i > Len(st.reels)
    THEN Summarize(st)
    ELSE IF st.reels[i] \in DOMAIN st.enabled_rules
         THEN [st EXCEPT !.ri = i, !.reels_processed = @ + 1, !.pc = "get_comments"]
         ELSE EnterReel(st, i + 1)

\* `for comment in comments:` from comment number j on.
NextComment(st, j) ==
    IF j > Len(st.comments)
    THEN EnterReel(st, st.ri + 1)
    ELSE [st EXCEPT !.ci = j, !.pc = "classify"]

\* The comment and the rule a run is working on.
CurComment(r) == runs[r].comments[runs[r].ci]

CurRule(r) == runs[r].enabled_rules[runs[r].reels[runs[r].ri]]

\* One item of get_comments' result: the nested replies the Graph API
\* returns (at most replies_limit), the summary's total_count when the
\* response carries one, and has_replied as get_comments computes it.
Snapshot(c, page_id, replies_limit, withSummary) ==
    LET replies == Prefix(thread[c], replies_limit) IN
    [id |-> c,
     replies |-> replies,
     reply_count |-> IF thread[c] # << >> /\ withSummary
                     THEN Some(Len(thread[c]))
                     ELSE Nothing,
     has_replied |-> replies # << >> /\ page_id \in Range(replies)]

\* FacebookService.has_replied_to_comment when the request succeeds
RemoteHasReplied(c, page_id) == page_id \in Range(Prefix(thread[c], HasRepliedLimit))

\* self._replied_comment_ids.add(c) on service svc
Mark(svc, c) == [services EXCEPT ![svc].replied_comment_ids = @ \cup {c}]

----------------------------------------------------------------------------
(* The callers of perform_monitoring_cycle *)

\* FacebookService(...), MonitorService(fb), load_rules(): the run is ready
\* to enter perform_monitoring_cycle on service svc.
Prepared(st, t, svc) ==
    [st EXCEPT !.svc = svc,
               !.page_id = cfg[t].pageId,
               !.replies_limit = cfg[t].repliesLimit,
               !.rules = load_rules(t),
               !.pc = "begin"]

\* MonitoringScheduler._job_func up to the call of perform_monitoring_cycle,
\* begun by a worker of the pool that is running no other job function.
JobStart(r) ==
    /\ runs[r].pc = "job_start"
    /\ WorkersBusy < max_workers
    /\ LET t == runs[r].tenant IN
       IF ~get_monitoring_enabled(t)
       THEN /\ runs' = [runs EXCEPT ![r].pc = "done", ![r].result = "disabled"]
            /\ UNCHANGED services
       ELSE IF ConfigIncomplete(t)
       THEN /\ runs' = [runs EXCEPT ![r].pc = "done", ![r].result = "unconfigured"]
            /\ UNCHANGED services
       ELSE /\ services' = Append(services, NewService)
            /\ runs' = [runs EXCEPT ![r] = Prepared(@, t, Len(services) + 1)]
    /\ UNCHANGED <<cfg, rulesDb, jobs, apJobs, schedRunning, started, calls, last_run, now,
                   thread, privateSent, events>>

\* MonitoringScheduler._job_func when a call of lines 40-62 raises (the
\* flag read, load_config or load_rules on a failing database): line 67
\* catches and logs the exception and the job function returns.
JobStartRaises(r) ==
    /\ runs[r].pc = "job_start"
    /\ WorkersBusy < max_workers
    /\ runs' = [runs EXCEPT ![r] = Raise(@)]
    /\ UNCHANGED <<cfg, rulesDb, jobs, apJobs, schedRunning, started, calls, last_run, now,
                   services, thread, privateSent, events>>

\* POST /trigger-monitoring: get_facebook_service answers 400 when the
\* configuration is incomplete; otherwise a new MonitorService is built, the
\* rules are loaded and the cycle is queued as a background task.
trigger_monitoring(t) ==
    /\ WorkerFree
    /\ IF ConfigIncomplete(t)
       THEN UNCHANGED <<runs, services>>
       ELSE /\ services' = Append(services, NewService)
            /\ runs' = Append(runs, Prepared(NewRun("manual", t, 0, "begin"), t,
                                             Len(services) + 1))
    /\ UNCHANGED <<cfg, rulesDb, jobs, apJobs, schedRunning, started, calls, last_run, now,
                   thread, privateSent, events>>

\* perform_monitoring_cycle is called on the one MonitorService object,
\* after the previous call returned.
CallCycle(t) ==
    /\ WorkerFree
    /\ \A r \in DOMAIN runs : ~InFlight(r)
    /\ runs' = Append(runs, Prepared(NewRun("direct", t, 0, "begin"), t, 1))
    /\ UNCHANGED <<cfg, rulesDb, jobs, apJobs, schedRunning, started, calls, last_run, now,
                   services, thread, privateSent, events>>

\* A caller that records last_run whoever it is.
JobReturn_AnyKind(r) ==
    /\ runs[r].pc = "returned"
    /\ runs' = [runs EXCEPT ![r].pc = "done"]
    /\ last_run' = [last_run EXCEPT ![runs[r].tenant] = now]
    /\ now' = now + 1
    /\ UNCHANGED <<cfg, rulesDb, jobs, apJobs, schedRunning, started, calls,
                   services, thread, privateSent, events>>

\* The caller after perform_monitoring_cycle returned: _job_func records
\* last_run; the background task and the direct call just end.
JobReturn(r) ==
    /\ runs[r].pc = "returned"
    /\ runs' = [runs EXCEPT ![r].pc = "done"]
    /\ IF runs[r].kind = "timer"
       THEN /\ last_run' = [last_run EXCEPT ![runs[r].tenant] = now]
            /\ now' = now + 1
       ELSE UNCHANGED <<last_run, now>>
    /\ UNCHANGED <<cfg, rulesDb, jobs, apJobs, schedRunning, started, calls,
                   services, thread, privateSent, events>>

----------------------------------------------------------------------------
(* perform_monitoring_cycle: the steps *)

\* Lines 60-70: filter the enabled rules; none: the zeroed summary.
BeginCycle(r) ==
    /\ runs[r].pc = "begin"
    /\ LET en == {k \in DOMAIN runs[r].rules : runs[r].rules[k].enabled} IN
       IF en = {}
       THEN runs' = [runs EXCEPT ![r].pc = "returned", ![r].result = "zero",
                                 ![r].summary = ZeroSummary]
       ELSE runs' = [runs EXCEPT ![r].enabled_rules = [k \in en |-> runs[r].rules[k]],
                                 ![r].pc = "get_reels"]
    /\ UNCHANGED <<cfg, rulesDb, jobs, apJobs, schedRunning, started, calls, last_run, now,
                   services, thread, privateSent, events>>

\* Lines 75-76: get_reels returns the reel list or raises.
GetReels(r) ==
    /\ runs[r].pc = "get_reels"
    /\ \/ runs' = [runs EXCEPT ![r] =
                      EnterReel([@ EXCEPT !.reels = RemoteReels, !.api_calls = @ + 1], 1)]
       \/ runs' = [runs EXCEPT ![r] = Raise(@)]
    /\ UNCHANGED <<cfg, rulesDb, jobs, apJobs, schedRunning, started, calls, last_run, now,
                   services, thread, privateSent, events>>

\* Lines 97-99: get_comments returns the reel's comments or raises.
GetComments(r) ==
    /\ runs[r].pc = "get_comments"
    /\ LET st == runs[r]
           reel == st.reels[st.ri]
           ids == RemoteComments(reel)
       IN \/ \E withSummary \in BOOLEAN :
                LET comments == [i \in 1..Len(ids) |->
                        Snapshot(ids[i], st.page_id, st.replies_limit, withSummary)]
                IN /\ runs' = [runs EXCEPT ![r] =
                        NextComment([st EXCEPT !.comments = comments,
                                               !.api_calls = @ + 1,
                                               !.total_comments = @ + Len(comments)], 1)]
                   /\ events' = events \cup {Ev(r, reel, "get_comments", "ok")}
          \/ /\ runs' = [runs EXCEPT ![r] = Raise(st)]
             /\ events' = events \cup {Ev(r, reel, "get_comments", "error")}
    /\ UNCHANGED <<cfg, rulesDb, jobs, apJobs, schedRunning, started, calls, last_run, now,
                   services, thread, privateSent>>

\* A KnownReplied that never finds the comment id.
KnownReplied_Never(svc, c) == FALSE

\* Line 108: `comment.id in self._replied_comment_ids`
KnownReplied(svc, c) == c \in services[svc].replied_comment_ids

\* An _is_page_comment that takes no comment for the page's own.
is_page_comment_Never(c, page_id) == FALSE

\* MonitorService._is_page_comment
is_page_comment(c, page_id) == Author(c) = page_id

\* A nested-reply test that finds no reply of the page.
HasReply_Never(comment, page_id) == FALSE

\* Lines 117-122: has_replied as fetched, or a nested reply of the page.
HasReply(comment, page_id) ==
    \/ comment.has_replied
    \/ comment.replies # << >> /\ page_id \in Range(comment.replies)

\* Lines 107-138: the checks made before any call for the comment.
Classify(r) ==
    /\ runs[r].pc = "classify"
    /\ LET st == runs[r]
           comment == CurComment(r)
           replies == comment.replies
           has_reply == HasReply(comment, st.page_id)
           fallback_needed == /\ comment.reply_count.some
                              /\ comment.reply_count.val > Len(replies)
       IN IF KnownReplied(st.svc, comment.id)
          THEN /\ runs' = [runs EXCEPT ![r] = NextComment(st, st.ci + 1)]
               /\ UNCHANGED <<services, events>>
          ELSE IF is_page_comment(comment.id, st.page_id)
          THEN /\ runs' = [runs EXCEPT ![r] = NextComment(st, st.ci + 1)]
               /\ UNCHANGED <<services, events>>
          ELSE IF has_reply
          THEN /\ services' = Mark(st.svc, comment.id)
               /\ events' = events \cup {Ev(r, comment.id, "mark", "nested")}
               /\ runs' = [runs EXCEPT ![r] = NextComment(st, st.ci + 1)]
          ELSE /\ runs' = [runs EXCEPT ![r].pc =
                              IF fallback_needed THEN "has_replied" ELSE "match"]
               /\ UNCHANGED <<services, events>>
    /\ UNCHANGED <<cfg, rulesDb, jobs, apJobs, schedRunning, started, calls, last_run, now,
                   thread, privateSent>>

\* A cache lookup that never finds an entry.
Cached_Never(svc, c) == FALSE

\* Lines 26-27: `cached is not None` for the comment id on service svc.
Cached(svc, c) == c \in DOMAIN services[svc].comment_reply_cache

\* Lines 138-146 with _has_page_replied: the cached answer, or one call of
\* has_replied_to_comment, which answers False when the request fails.
HasReplied(r) ==
    /\ runs[r].pc = "has_replied"
    /\ LET st == runs[r]
           c == CurComment(r).id
           cache == services[st.svc].comment_reply_cache
           Go(has_replied) ==
               IF has_replied
               THEN NextComment([st EXCEPT !.api_calls = @ + 1], st.ci + 1)
               ELSE [st EXCEPT !.api_calls = @ + 1, !.pc = "match"]
       IN IF Cached(st.svc, c)
          THEN /\ runs' = [runs EXCEPT ![r] = Go(cache[c])]
               /\ UNCHANGED <<services, events>>
          ELSE \E out \in {"ok", "error"} :
                 LET has_replied == out = "ok" /\ RemoteHasReplied(c, st.page_id) IN
                 /\ services' =
                      [services EXCEPT
                         ![st.svc].comment_reply_cache = (c :> has_replied) @@ @,
                         ![st.svc].replied_comment_ids =
                             IF has_replied THEN @ \cup {c} ELSE @]
                 /\ events' = events \cup {Ev(r, c, "check", out)}
                               \cup (IF has_replied THEN {Ev(r, c, "mark", "check")} ELSE {})
                 /\ runs' = [runs EXCEPT ![r] = Go(has_replied)]
    /\ UNCHANGED <<cfg, rulesDb, jobs, apJobs, schedRunning, started, calls, last_run, now,
                   thread, privateSent>>

\* Lines 148-157: the rule match.
Match(r) ==
    /\ runs[r].pc = "match"
    /\ LET st == runs[r]
           c == CurComment(r).id
       IN /\ events' = events \cup {Ev(r, c, "match", "")}
          /\ runs' = [runs EXCEPT ![r] =
                IF Matches(Message(c), CurRule(r))
                THEN [st EXCEPT !.pc = "reply"]
                ELSE NextComment(st, st.ci + 1)]
    /\ UNCHANGED <<cfg, rulesDb, jobs, apJobs, schedRunning, started, calls, last_run, now,
                   services, thread, privateSent>>

\* Lines 160-171: reply_to_comment returns: the remote has posted the
\* reply; the comment is counted and marked, and the private reply follows
\* when the rule has an inbox_message.
ReplyPosted(r) ==
    LET st == runs[r]
        c == CurComment(r).id
        sent == [st EXCEPT !.api_calls = @ + 1, !.replies_sent = @ + 1]
    IN /\ thread' = [thread EXCEPT ![c] = Append(@, st.page_id)]
       /\ services' = Mark(st.svc, c)
       /\ events' = events \cup {Ev(r, c, "reply", "ok"), Ev(r, c, "mark", "reply")}
       /\ runs' = [runs EXCEPT ![r] =
             IF Truthy(CurRule(r).inbox_message)
             THEN [sent EXCEPT !.pc = "inbox"]
             ELSE NextComment(sent, st.ci + 1)]

\* A ReplyRaises that has marked the comment before the call.
ReplyRaises_MarkedFirst(r, out) ==
    LET st == runs[r]
        c == CurComment(r).id
    IN /\ events' = events \cup {Ev(r, c, "reply", out)}
       /\ runs' = [runs EXCEPT ![r] =
             NextComment([st EXCEPT !.api_calls = @ + 1], st.ci + 1)]
       /\ services' = Mark(st.svc, c)
       /\ UNCHANGED thread

\* A ReplyRaises that has counted the reply before the call.
ReplyRaises_Counted(r, out) ==
    LET st == runs[r]
        c == CurComment(r).id
    IN /\ events' = events \cup {Ev(r, c, "reply", out)}
       /\ runs' = [runs EXCEPT ![r] =
             NextComment([st EXCEPT !.api_calls = @ + 1, !.replies_sent = @ + 1],
                         st.ci + 1)]
       /\ UNCHANGED <<thread, services>>

\* Lines 160-163, 186-187: reply_to_comment raises (out says why): the
\* failure is logged and the loop goes on with the next comment.
ReplyRaises(r, out) ==
    LET st == runs[r]
        c == CurComment(r).id
    IN /\ events' = events \cup {Ev(r, c, "reply", out)}
       /\ runs' = [runs EXCEPT ![r] =
             NextComment([st EXCEPT !.api_calls = @ + 1], st.ci + 1)]
       /\ UNCHANGED <<thread, services>>

\* The public reply. The remote posts it, fails ("error"), or, for a comment
\* the page has answered, may report that it is already replied to
\* ("duplicate"); reply_to_comment raises for both of the latter.
Reply(r) ==
    /\ runs[r].pc = "reply"
    /\ \/ ReplyPosted(r)
       \/ ReplyRaises(r, "error")
       \/ /\ runs[r].page_id \in Range(thread[CurComment(r).id])
          /\ ReplyRaises(r, "duplicate")
    /\ UNCHANGED <<cfg, rulesDb, jobs, apJobs, schedRunning, started, calls, last_run, now,
                   privateSent>>

\* Lines 173-182: send_private_reply returns, for a message the remote sent
\* ("ok") and for error 10900, already replied to ("duplicate").
InboxReturns(r, out) ==
    LET st == runs[r]
        c == CurComment(r).id
    IN /\ privateSent' = IF out = "ok" THEN privateSent \cup {c} ELSE privateSent
       /\ events' = events \cup {Ev(r, c, "inbox", out)}
       /\ runs' = [runs EXCEPT ![r] =
             NextComment([st EXCEPT !.api_calls = @ + 1, !.inbox_sent = @ + 1],
                         st.ci + 1)]

\* An InboxRaises that has counted the message before the call.
InboxRaises_Counted(r) ==
    LET st == runs[r]
        c == CurComment(r).id
    IN /\ events' = events \cup {Ev(r, c, "inbox", "error")}
       /\ runs' = [runs EXCEPT ![r] =
             NextComment([st EXCEPT !.api_calls = @ + 1, !.inbox_sent = @ + 1],
                         st.ci + 1)]
       /\ UNCHANGED privateSent

\* Lines 173-176, 183-184: send_private_reply raises: the failure is logged
\* and the loop goes on with the next comment.
InboxRaises(r) ==
    LET st == runs[r]
        c == CurComment(r).id
    IN /\ events' = events \cup {Ev(r, c, "inbox", "error")}
       /\ runs' = [runs EXCEPT ![r] =
             NextComment([st EXCEPT !.api_calls = @ + 1], st.ci + 1)]
       /\ UNCHANGED privateSent

\* The private reply.
Inbox(r) ==
    /\ runs[r].pc = "inbox"
    /\ \/ InboxReturns(r, "ok")
       \/ /\ CurComment(r).id \in privateSent
          /\ InboxReturns(r, "duplicate")
       \/ InboxRaises(r)
    /\ UNCHANGED <<cfg, rulesDb, jobs, apJobs, schedRunning, started, calls, last_run, now,
                   services, thread>>

\* One step of some run inside perform_monitoring_cycle, or its caller's
\* tail.
CycleStep ==
    \/ \E r \in DOMAIN runs : BeginCycle(r)
    \/ \E r \in DOMAIN runs : GetReels(r)
    \/ \E r \in DOMAIN runs : GetComments(r)
    \/ \E r \in DOMAIN runs : Classify(r)
    \/ \E r \in DOMAIN runs : HasReplied(r)
    \/ \E r \in DOMAIN runs : Match(r)
    \/ \E r \in DOMAIN runs : Reply(r)
    \/ \E r \in DOMAIN runs : Inbox(r)
    \/ \E r \in DOMAIN runs : JobReturn(r)

----------------------------------------------------------------------------
(* Specifications *)

\* The process: bootstrap, timer ticks, manual triggers, and the runs.
Next ==
    \/ Start
    \/ \E t \in DOMAIN cfg : Tick(t)
    \/ \E t \in DOMAIN cfg : trigger_monitoring(t)
    \/ \E r \in DOMAIN runs : JobStart(r)
    \/ CycleStep

Spec == Init /\ [][Next]_vars

\* A tick that fires when no run of the process is in flight.
TickIdle(t) ==
    /\ \A r \in DOMAIN runs : ~InFlight(r)
    /\ Tick(t)

\* The process when every cycle ends before the tenant's next tick and no
\* manual trigger arrives: the timer-driven cycles run in sequence.
SeqNext ==
    \/ Start
    \/ \E t \in DOMAIN cfg : TickIdle(t)
    \/ \E r \in DOMAIN runs : JobStart(r)
    \/ CycleStep

SeqSpec == Init /\ [][SeqNext]_vars

\* The process of a tenant whose credentials are complete or not.
ConfSpec == ConfInit /\ [][Next]_vars

\* The process with its timer when the database reads of a job function
\* may raise as well as the remote calls of its cycle.
FaultNext ==
    \/ Start
    \/ \E t \in DOMAIN cfg : Tick(t)
    \/ \E r \in DOMAIN runs : JobStart(r)
    \/ \E r \in DOMAIN runs : JobStartRaises(r)
    \/ CycleStep

FaultSpec == ConfInit /\ [][FaultNext]_vars

\* The bootstrap against a database whose queries may raise, then the
\* timer, followed up to the point where a job function calls
\* perform_monitoring_cycle.
BootNext ==
    \/ \E usersOk \in BOOLEAN, pagesOk \in SUBSET Users, readOk \in SUBSET BootTenants :
           Bootstrap(usersOk, pagesOk, readOk)
    \/ \E t \in DOMAIN cfg : Tick(t)
    \/ \E r \in DOMAIN runs : JobStart(r)

BootSpec == BootInit /\ [][BootNext]_vars

\* One MonitorService object called in sequence.
ExecNext ==
    \/ \E t \in DOMAIN cfg : CallCycle(t)
    \/ CycleStep

ExecSpec == ExecInit /\ [][ExecNext]_vars

\* The same calls for every choice of the rules' keywords.
MatchSpec == MatchInit /\ [][ExecNext]_vars

\* The registry under API requests that arrive at any time: the handlers'
\* scheduling calls interleave at their scheduler calls.
RegNext ==
    \/ Start
    \/ \E t \in DOMAIN cfg, enabled \in BOOLEAN : set_monitoring_enabled(t, enabled)
    \/ \E t \in DOMAIN cfg, iv \in Intervals : set_monitoring_interval(t, iv)
    \/ SchedStep

RegSpec == RegInit /\ [][RegNext]_vars

\* The registry under API requests that arrive at any time while every
\* configuration read succeeds.
RaceNext ==
    \/ Start
    \/ \E t \in DOMAIN cfg, enabled \in BOOLEAN : set_monitoring_enabled(t, enabled)
    \/ \E t \in DOMAIN cfg, iv \in Intervals : set_monitoring_interval(t, iv)
    \/ \E k \in DOMAIN calls : SchedReadWith(k, TRUE)
    \/ \E k \in DOMAIN calls : SchedRemove(k)
    \/ \E k \in DOMAIN calls : SchedReplace(k)
    \/ \E k \in DOMAIN calls : SchedAdd(k)

RaceSpec == RegInit /\ [][RaceNext]_vars

\* The registry under API requests that arrive one after the other.
AdminNext ==
    \/ Start
    \/ CallsDone /\ \E t \in DOMAIN cfg, enabled \in BOOLEAN : set_monitoring_enabled(t, enabled)
    \/ CallsDone /\ \E t \in DOMAIN cfg, iv \in Intervals : set_monitoring_interval(t, iv)
    \/ SchedStep

AdminSpec == RegInit /\ [][AdminNext]_vars

\* The registry under API requests that arrive one after the other when
\* add_job may raise.
AddFailNext ==
    \/ AdminNext
    \/ \E k \in DOMAIN calls : SchedAddRaises(k)

AddFailSpec == RegInit /\ [][AddFailNext]_vars

\* Values POST /monitoring/interval accepts for interval_seconds: any int.
AnyIntervals == {-5, 60}

\* The registry under API requests that arrive one after the other and set
\* any interval the endpoint accepts.
IntervalNext ==
    \/ Start
    \/ CallsDone /\ \E t \in DOMAIN cfg, enabled \in BOOLEAN : set_monitoring_enabled(t, enabled)
    \/ CallsDone /\ \E t \in DOMAIN cfg, iv \in AnyIntervals : set_monitoring_interval(t, iv)
    \/ SchedStep

IntervalSpec == RegInit /\ [][IntervalNext]_vars

\* The process while POST /monitoring/enabled requests arrive one after the
\* other: the flag changes under an installed job, under submitted runs and
\* under running cycles. The tenant's comments have no replies and its rule
\* no inbox message, so a cycle makes no has-replied check and sends no
\* private reply.
FlagNext ==
    \/ Start
    \/ CallsDone /\ \E t \in DOMAIN cfg, enabled \in BOOLEAN : set_monitoring_enabled(t, enabled)
    \/ SchedStep
    \/ \E t \in DOMAIN cfg : Tick(t)
    \/ \E r \in DOMAIN runs : JobStart(r)
    \/ \E r \in DOMAIN runs : BeginCycle(r)
    \/ \E r \in DOMAIN runs : GetReels(r)
    \/ \E r \in DOMAIN runs : GetComments(r)
    \/ \E r \in DOMAIN runs : Classify(r)
    \/ \E r \in DOMAIN runs : Match(r)
    \/ \E r \in DOMAIN runs : Reply(r)
    \/ \E r \in DOMAIN runs : JobReturn(r)

FlagSpec == FlagInit /\ [][FlagNext]_vars

\* No scheduling call is in progress and no cycle is under way.
Quiet ==
    /\ CallsDone
    /\ \A r \in DOMAIN runs : runs[r].pc \in {"job_start", "done"}

\* The process of two tenants: timer ticks, manual triggers, requests that
\* change the first tenant's schedule, each arriving when Quiet, and job
\* functions whose
\* database reads may raise. No comment has a reply and none matches a
\* rule, so a cycle makes no has-replied check and sends no reply.
LedgerNext ==
    \/ Start
    \/ Quiet /\ \E enabled \in BOOLEAN : set_monitoring_enabled(T1, enabled)
    \/ Quiet /\ set_monitoring_interval(T1, 60)
    \/ SchedStep
    \/ \E t \in DOMAIN cfg : Tick(t)
    \/ \E t \in DOMAIN cfg : trigger_monitoring(t)
    \/ \E r \in DOMAIN runs : JobStart(r)
    \/ \E r \in DOMAIN runs : JobStartRaises(r)
    \/ \E r \in DOMAIN runs : BeginCycle(r)
    \/ \E r \in DOMAIN runs : GetReels(r)
    \/ \E r \in DOMAIN runs : GetComments(r)
    \/ \E r \in DOMAIN runs : Classify(r)
    \/ \E r \in DOMAIN runs : Match(r)
    \/ \E r \in DOMAIN runs : JobReturn(r)

LedgerSpec == LedgerInit /\ [][LedgerNext]_vars

\* The process under API requests that arrive one after the other, with
\* its timer and its worker pool, followed up to the point where a job
\* function calls perform_monitoring_cycle.
LiveNext ==
    \/ AdminNext
    \/ \E t \in DOMAIN cfg : Tick(t)
    \/ \E r \in DOMAIN runs : JobStart(r)

\* main.py runs start() to its end, a handler thread runs its scheduling
\* call to its end, the BackgroundScheduler's thread fires an installed
\* interval job when its time comes, and the worker pool starts a
\* submitted job function.
LiveFairness ==
    /\ WF_vars(Start)
    /\ WF_vars(SchedStep)
    /\ WF_vars(\E t \in DOMAIN cfg : Tick(t))
    /\ WF_vars(\E r \in DOMAIN runs : JobStart(r))

LiveSpec == LiveInit /\ [][LiveNext]_vars /\ LiveFairness

\* Three enabled tenants with credentials. Two of them have an enabled rule,
\* so their cycles call get_reels; the third has none, so its cycles return
\* at once.
PoolTenants == {T1, T2, T3}

\* The tenants whose remote call gets no answer.
StalledTenants == {T2, T3}

MaxPoolRuns == 16

PoolInit ==
    /\ InitOver(PoolTenants, [t \in PoolTenants |-> StoredRules(t \in StalledTenants)],
                PoolTenants, TRUE, TRUE, 100, << >>)
    /\ services = << >>

\* No submitted run can begin and no run has a local step to take.
Settled ==
    \A r \in DOMAIN runs :
        \/ runs[r].pc \in {"get_reels", "done"}
        \/ runs[r].pc = "job_start" /\ WorkersBusy >= max_workers

\* The run times of the tenant's job that were handed to the executor.
Fired(t) ==
    Cardinality({r \in DOMAIN runs : runs[r].kind = "timer" /\ runs[r].tenant = t})

\* No tenant stores an interval, so start() gives every job the default
\* interval: the jobs fire in rounds, none twice before another job that
\* can be submitted was submitted once.
InTurn(t) ==
    \A u \in DOMAIN cfg : Fired(t) <= Fired(u) \/ Instances(u) >= max_instances

\* A tick of the tenant's job, the interval being long against a worker's
\* local steps.
PoolTick(t) ==
    /\ Len(runs) < MaxPoolRuns
    /\ Settled
    /\ InTurn(t)
    /\ Fire(t)

\* The process whose remote API accepts the requests of the stalled
\* tenants' cycles and never answers: a run at get_reels stays there
\* (requests.get is called with no timeout).
PoolNext ==
    \/ Start
    \/ \E t \in DOMAIN cfg : PoolTick(t)
    \/ \E r \in DOMAIN runs : JobStart(r)
    \/ \E r \in DOMAIN runs : BeginCycle(r)
    \/ \E r \in DOMAIN runs : JobReturn(r)

\* main.py runs start() to its end, the BackgroundScheduler's thread fires
\* the interval jobs, a free worker of the pool begins a submitted job
\* function, and a worker that has begun one runs its local steps.
PoolFairness ==
    /\ WF_vars(Start)
    /\ WF_vars(\E t \in DOMAIN cfg : PoolTick(t))
    /\ WF_vars(\E r \in DOMAIN runs : JobStart(r))
    /\ WF_vars(\E r \in DOMAIN runs : BeginCycle(r))
    /\ WF_vars(\E r \in DOMAIN runs : JobReturn(r))

PoolSpec == PoolInit /\ [][PoolNext]_vars /\ PoolFairness

\* The steps of a cycle that wait for nothing outside the process: the
\* thread that runs the cycle takes them. The steps that call the Graph API
\* (get_reels, get_comments, has_replied_to_comment, reply_to_comment,
\* send_private_reply) return when the remote answers or the connection
\* fails: requests.get and requests.post are called with no timeout, so
\* nothing in the process ends a call the remote leaves unanswered.
StallFairness ==
    /\ WF_vars(\E r \in DOMAIN runs : BeginCycle(r))
    /\ WF_vars(\E r \in DOMAIN runs : Classify(r))
    /\ WF_vars(\E r \in DOMAIN runs : Match(r))
    /\ WF_vars(\E r \in DOMAIN runs : JobReturn(r))

\* One MonitorService object called in sequence, against a remote API that
\* may leave a request unanswered.
StallSpec == ExecInit /\ [][ExecNext]_vars /\ StallFairness

----------------------------------------------------------------------------
(* The BackgroundScheduler's clock: late wake-ups and late workers *)

\* The last second of the clock the behaviours reach.
MaxClock == 1000

\* The seconds that pass between two steps: the grace window, one second
\* more, one interval, and more than two intervals.
Delays == {30, 31, 300, 700}

\* Time passes: the scheduler's thread sleeps or is held up, a submitted
\* run waits for its worker.
Elapse(d) ==
    /\ now + d <= MaxClock
    /\ now' = now + d
    /\ UNCHANGED <<cfg, rulesDb, jobs, apJobs, schedRunning, started, calls, last_run,
                   services, runs, thread, privateSent, events>>

\* Job._get_run_times(now): the run times of the job that are due, oldest
\* first.
RECURSIVE RunTimes(_, _)
RunTimes(job, from) ==
    IF from > now THEN << >>
    ELSE <<from>> \o RunTimes(job, from + job.interval)

\* Every due run time is handed to the executor.
Coalesced_All(run_times) == run_times

\* `run_times[-1:] if run_times and job.coalesce else run_times`
Coalesced(run_times) ==
    IF run_times # << >> /\ coalesce
    THEN <<run_times[Len(run_times)]>>
    ELSE run_times

\* The runs the executor is handed for the run times.
Submitted(t, run_times) ==
    [i \in 1..Len(run_times) |->
        [NewRun("timer", t, 0, "job_start") EXCEPT !.run_time = run_times[i]]]

\* BaseScheduler._process_jobs for the tenant's job when it is due: the due
\* run times are coalesced and submitted unless max_instances instances
\* are running, and the job's next run time moves past the clock.
ProcessDue(t) ==
    /\ schedRunning
    /\ job_id(t) \in DOMAIN apJobs
    /\ LET job == apJobs[job_id(t)]
           due == RunTimes(job, job.next_run_time)
           run_times == Coalesced(due)
       IN /\ due # << >>
          /\ runs' = IF Instances(t) < max_instances
                     THEN runs \o Submitted(t, run_times)
                     ELSE runs
          /\ apJobs' = [apJobs EXCEPT ![job_id(t)].next_run_time =
                            due[Len(due)] + job.interval]
    /\ UNCHANGED <<cfg, rulesDb, jobs, schedRunning, started, calls, last_run, now,
                   services, thread, privateSent, events>>

\* The run is never taken for a misfire.
Misfired_Never(r) == FALSE

\* run_job: `difference > grace_time`, the difference being the worker's
\* clock minus the run time.
Misfired(r) == now - runs[r].run_time > misfire_grace_time

\* A worker takes the submitted run: a misfire is reported as missed and the
\* job function is not called; otherwise the job function begins.
RunJob(r) ==
    /\ runs[r].pc = "job_start"
    /\ IF Misfired(r)
       THEN /\ runs' = [runs EXCEPT ![r].pc = "done", ![r].result = "missed"]
            /\ UNCHANGED <<cfg, rulesDb, jobs, apJobs, schedRunning, started, calls,
                           last_run, now, services, thread, privateSent, events>>
       ELSE JobStart(r)

\* The process of an enabled tenant with credentials, after
\* MonitoringScheduler() was constructed.
MisfireInit ==
    /\ InitWith(TRUE, TRUE, 100, << >>, TRUE)
    /\ services = << >>

\* The scheduler against its clock, followed up to the point where a job
\* function calls perform_monitoring_cycle.
MisfireNext ==
    \/ Start
    \/ \E d \in Delays : Elapse(d)
    \/ \E t \in DOMAIN cfg : ProcessDue(t)
    \/ \E r \in DOMAIN runs : RunJob(r)

MisfireSpec == MisfireInit /\ [][MisfireNext]_vars

----------------------------------------------------------------------------
(* Vocabulary of the properties *)

\* The run is inside perform_monitoring_cycle, past its first lines.
Executing(r) ==
    runs[r].pc \in {"get_reels", "get_comments", "classify", "has_replied",
                    "match", "reply", "inbox"}

\* The run has a MonitorService and has entered perform_monitoring_cycle.
Entered(r) == runs[r].svc # 0 /\ runs[r].pc # "job_start"

\* The public replies the cycles have posted to comment c.
RepliesPosted(c) == {e \in events : e.op = "reply" /\ e.out = "ok" /\ e.id = c}

\* The comment ids run r added to its service's known-replied set.
MarkedBy(r) == {e.id : e \in {x \in events : x.run = r /\ x.op = "mark"}}

\* The reel a comment belongs to.
ReelOf(c) == CHOOSE reel \in Range(RemoteReels) : c \in Range(RemoteComments(reel))

\* The step posts a failed public reply of run r to comment c.
ReplyFails(r, c) ==
    \E out \in {"error", "duplicate"} :
        Ev(r, c, "reply", out) \in events' /\ Ev(r, c, "reply", out) \notin events

\* The step is a failed private reply of run r to comment c.
InboxFails(r, c) ==
    Ev(r, c, "inbox", "error") \in events' /\ Ev(r, c, "inbox", "error") \notin events

\* After the step, run r is still in its loops, at the comment after the
\* one it was at if the reel has one.
GoesOn(r) ==
    /\ runs'[r].result # "raised"
    /\ runs'[r].pc \in {"classify", "get_comments", "returned"}
    /\ runs[r].ci < Len(runs[r].comments)
       => /\ runs'[r].pc = "classify"
          /\ runs'[r].ri = runs[r].ri
          /\ runs'[r].ci = runs[r].ci + 1

\* The position of reel in the run's fetched reel list (0: not in it).
ReelIndex(r, reel) ==
    IF \E i \in DOMAIN runs[r].reels : runs[r].reels[i] = reel
    THEN CHOOSE i \in DOMAIN runs[r].reels : runs[r].reels[i] = reel
    ELSE 0

----------------------------------------------------------------------------
(* C1 .. C10 *)

\* C1: in every reachable state at most one timer-driven cycle of a tenant
\* is in flight: a tick that fires while the tenant's cycle is still running
\* starts no second one.
C1_NonOverlap ==
    \A t \in DOMAIN cfg :
        Cardinality({r \in DOMAIN runs :
            runs[r].kind = "timer" /\ runs[r].tenant = t /\ Executing(r)}) <= 1

\* C2: a manual "trigger now" cycle and a timer-driven cycle of the same
\* tenant never execute at the same time.
C2_ManualTimerExclusive ==
    \A r1, r2 \in DOMAIN runs :
        (/\ runs[r1].kind = "manual"
         /\ runs[r2].kind = "timer"
         /\ runs[r1].tenant = runs[r2].tenant)
        => ~(Executing(r1) /\ Executing(r2))

\* C3: cycles of a tenant run one after the other over an unchanged comment
\* set post at most one public reply to a comment in total.
C3_IdempotentAcrossCycles ==
    \A c \in CommentIds : Cardinality(RepliesPosted(c)) <= 1

\* C5: a comment id marked known-replied by one timer-driven cycle of a
\* tenant is known-replied in every later timer-driven cycle of the tenant.
C5_DedupLongLived ==
    \A r1, r2 \in DOMAIN runs :
        (/\ r1 < r2
         /\ runs[r1].kind = "timer" /\ runs[r2].kind = "timer"
         /\ runs[r1].tenant = runs[r2].tenant
         /\ Entered(r2) /\ InFlight(r2))
        => MarkedBy(r1) \subseteq services[runs[r2].svc].replied_comment_ids

\* C6: a comment the page has already replied to in the remote state gets
\* no further public reply from a cycle that starts with an empty dedup
\* cache.
C6_NoDuplicateAfterCacheLoss ==
    [][\A c \in CommentIds :
          PAGE \in Range(thread[c]) => thread'[c] = thread[c]]_vars

\* C7: a public reply the remote rejects as "already replied" leaves the
\* comment marked known-replied on the executor.
C7_DuplicateTolerated ==
    \A e \in events :
        (e.op = "reply" /\ e.out = "duplicate")
        => e.id \in services[runs[e.run].svc].replied_comment_ids

\* C8: a cycle in which the comment fetch of one reel failed still fetches
\* the comments of every later reel that has an enabled rule, and returns
\* its summary.
C8_FetchFailureIsolated ==
    \A e \in events :
        (e.op = "get_comments" /\ e.out = "error" /\ ~InFlight(e.run))
        => /\ runs[e.run].result = "summary"
           /\ \A i \in DOMAIN runs[e.run].reels :
                 (/\ i > ReelIndex(e.run, e.id)
                  /\ runs[e.run].reels[i] \in DOMAIN runs[e.run].enabled_rules)
                 => \E e2 \in events :
                        /\ e2.run = e.run
                        /\ e2.op = "get_comments"
                        /\ e2.id = runs[e.run].reels[i]

\* C4: a comment id marked known-replied by one cycle of a MonitorService
\* object is never rule-matched, remotely checked, or replied to in public
\* or in private by a later cycle of the same object.
C4_DedupGuarantee ==
    \A e1, e2 \in events :
        (/\ e1.op = "mark"
         /\ e1.id = e2.id
         /\ e1.run < e2.run
         /\ runs[e1.run].svc = runs[e2.run].svc)
        => e2.op \notin {"match", "check", "reply", "inbox"}

\* C4's case: the second cycle of the object has fetched the comments of R1
\* and returned, after the first cycle marked c1.
C4_Witness ==
    /\ Len(runs) >= 2
    /\ runs[1].svc = runs[2].svc
    /\ "c1" \in MarkedBy(1)
    /\ Ev(2, "R1", "get_comments", "ok") \in events
    /\ runs[2].result = "summary"

\* A later cycle of the same object that returned after fetching comment
\* c's reel has looked at c again: it attempted the reply, unless it found c
\* already answered by the page.
RetriedNextCycle ==
    \A e \in events :
        (/\ e.op = "reply" /\ e.out \in {"error", "duplicate"}
         /\ e.run + 1 \in DOMAIN runs
         /\ runs[e.run + 1].svc = runs[e.run].svc
         /\ Ev(e.run + 1, ReelOf(e.id), "get_comments", "ok") \in events
         /\ runs[e.run + 1].result = "summary")
        => \E e2 \in events :
               /\ e2.run = e.run + 1
               /\ e2.id = e.id
               /\ \/ e2.op = "reply"
                  \/ e2.op = "mark" /\ e2.out \in {"nested", "check"}

\* C9: a failed public reply changes no dedup state of the executor (the
\* known-replied set and the check cache stay as they were), counts no
\* reply, and the cycle goes on with the remaining comments; the next cycle
\* on the same executor attempts the comment again.
C9_FailedReplyKeepsState ==
    /\ []RetriedNextCycle
    /\ [][\A r \in DOMAIN runs : \A c \in CommentIds :
            ReplyFails(r, c)
            => /\ services' = services
               /\ c \notin services'[runs[r].svc].replied_comment_ids
               /\ runs'[r].replies_sent = runs[r].replies_sent
               /\ runs'[r].inbox_sent = runs[r].inbox_sent
               /\ GoesOn(r)]_vars

\* C9's case: the reply to c1 failed in the first cycle and the second
\* cycle of the same object posted it.
C9_Witness ==
    /\ Len(runs) >= 2
    /\ runs[1].svc = runs[2].svc
    /\ Ev(1, "c1", "reply", "error") \in events
    /\ Ev(2, "c1", "reply", "ok") \in events

\* A private reply was attempted only after the run's public reply to the
\* comment was posted, and only under a rule with an inbox_message.
InboxOnlyAfterReply ==
    \A e \in events :
        e.op = "inbox"
        => /\ Ev(e.run, e.id, "reply", "ok") \in events
           /\ Truthy(runs[e.run].enabled_rules[ReelOf(e.id)].inbox_message)

\* C10: the private reply is attempted only after a successful public reply
\* under a rule with an inbox_message; when it fails the comment stays
\* marked, replies_sent and inbox_sent keep their values and the cycle goes
\* on.
C10_InboxBestEffort ==
    /\ []InboxOnlyAfterReply
    /\ [][\A r \in DOMAIN runs : \A c \in CommentIds :
            InboxFails(r, c)
            => /\ c \in services'[runs[r].svc].replied_comment_ids
               /\ services' = services
               /\ thread' = thread
               /\ runs'[r].replies_sent = runs[r].replies_sent
               /\ runs'[r].inbox_sent = runs[r].inbox_sent
               /\ GoesOn(r)]_vars

\* C10's case: a cycle returned its summary with the public reply to c3
\* counted and marked, and the private reply failed.
C10_Witness ==
    \E r \in DOMAIN runs :
        /\ Ev(r, "c3", "inbox", "error") \in events
        /\ runs[r].result = "summary"
        /\ runs[r].replies_sent >= 1
        /\ runs[r].inbox_sent = 0
        /\ "c3" \in services[runs[r].svc].replied_comment_ids

----------------------------------------------------------------------------
(* C11 .. C20 *)

\* C11: a comment whose author is the tenant's page is never passed to the
\* rule matcher and gets no public or private reply, whatever the rule
\* (R2's rule matches every text).
C11_SelfReplySuppressed ==
    \A e \in events :
        (e.id \in CommentIds /\ Author(e.id) = runs[e.run].page_id)
        => e.op \notin {"match", "reply", "inbox"}

\* C11's case: a cycle fetched R2, whose first comment c4 is the page's
\* own, went on to answer c3 and returned.
C11_Witness ==
    \E r \in DOMAIN runs :
        /\ Ev(r, "R2", "get_comments", "ok") \in events
        /\ Author("c4") = runs[r].page_id
        /\ Ev(r, "c3", "reply", "ok") \in events
        /\ runs[r].result = "summary"

\* Run r has left the comment it was at without going to the rule match.
PassedOver(r) ==
    /\ runs'[r].pc \notin {"has_replied", "match", "reply", "inbox"}
    /\ CurComment(r).id \in services'[runs[r].svc].replied_comment_ids

\* A comment a cycle found answered by the page is in the known-replied set
\* and the cycle made no reply attempt for it.
SatisfiedNotReplied ==
    \A e1 \in events :
        (e1.op = "mark" /\ e1.out \in {"nested", "check"})
        => /\ e1.id \in services[runs[e1.run].svc].replied_comment_ids
           /\ \A e2 \in events :
                 (e2.run = e1.run /\ e2.id = e1.id) => e2.op \notin {"reply", "inbox"}

\* C12: when a nested reply of the fetched comment is the page's, or the
\* remote has-replied check answers that the page has replied, the cycle
\* marks the comment known-replied and makes no reply attempt for it.
C12_SatisfiedSkipped ==
    /\ []SatisfiedNotReplied
    /\ [][\A r \in DOMAIN runs :
            /\ (/\ runs[r].pc = "classify"
                /\ runs'[r] # runs[r]
                /\ ~KnownReplied(runs[r].svc, CurComment(r).id)
                /\ ~is_page_comment(CurComment(r).id, runs[r].page_id)
                /\ runs[r].page_id \in Range(CurComment(r).replies))
               => PassedOver(r)
            /\ (/\ runs[r].pc = "has_replied"
                /\ Ev(r, CurComment(r).id, "check", "ok") \in events' \ events
                /\ RemoteHasReplied(CurComment(r).id, runs[r].page_id))
               => PassedOver(r)]_vars

\* C12's case: the remote check found the page's reply to c1, which the
\* nested replies did not show, and the cycle returned without replying.
C12_Witness ==
    \E r \in DOMAIN runs :
        /\ Ev(r, "c1", "mark", "check") \in events
        /\ runs[r].result = "summary"
        /\ runs[r].replies_sent = 1

\* C13: a cycle whose rules are all disabled returns a summary whose
\* counters reels, comments, replies, inbox and api_calls are all zero, and
\* issues no remote call.
C13_DisabledRulesInert ==
    \A r \in DOMAIN runs :
        (/\ runs[r].pc \in {"returned", "done"}
         /\ Entered(r)
         /\ \A k \in DOMAIN runs[r].rules : ~runs[r].rules[k].enabled)
        => /\ \A e \in events : e.run # r
           /\ \A k \in {"reels", "comments", "replies", "inbox", "api_calls"} :
                 k \in DOMAIN runs[r].summary /\ runs[r].summary[k] = 0

\* The jobs of tenant t in the BackgroundScheduler's store: its timers.
Timers(t) == {j \in DOMAIN apJobs : apJobs[j].tenant = t}

\* The latest scheduling call, once every call has returned.
LastCall == calls[Len(calls)]

\* C14: after reschedule(tenant, newInterval), called while the tenant's
\* job exists and monitoring is enabled, has returned, the tenant has
\* exactly one job in the scheduler and its interval is newInterval.
C14_RescheduleLive ==
    (/\ calls # << >>
     /\ CallsDone
     /\ LastCall.op = "reschedule"
     /\ LastCall.prev.some
     /\ get_monitoring_enabled(LastCall.tenant))
    => /\ Cardinality(Timers(LastCall.tenant)) = 1
       /\ \A j \in Timers(LastCall.tenant) :
             apJobs[j].interval = LastCall.interval_seconds.val
       /\ LastCall.tenant \in DOMAIN jobs
       /\ jobs[LastCall.tenant].interval = LastCall.interval_seconds.val

\* C14's case: the tenant's job ran at another interval when reschedule
\* was called with 600, and runs at 600 after it returned.
C14_Witness ==
    /\ calls # << >>
    /\ CallsDone
    /\ LastCall.op = "reschedule"
    /\ LastCall.prev.some
    /\ LastCall.prev.val # 600
    /\ LastCall.interval_seconds.val = 600
    /\ get_monitoring_enabled(LastCall.tenant)
    /\ \E j \in Timers(LastCall.tenant) : apJobs[j].interval = 600

\* C15: in every state, whatever the scheduling calls and however they
\* interleave, a tenant has at most one job in the BackgroundScheduler.
C15_OneTimerPerTenant ==
    \A t \in DOMAIN cfg : Cardinality(Timers(t)) <= 1

\* C15's case: two scheduling calls of one tenant overlapped: one added its
\* job and the add_job of the other was refused.
C15_Witness ==
    \E k1, k2 \in DOMAIN calls :
        /\ calls[k1].tenant = calls[k2].tenant
        /\ calls[k1].outcome = "added"
        /\ calls[k2].outcome = "conflict"
        /\ Cardinality(Timers(calls[k1].tenant)) = 1

\* C16: after refresh_user_job(tenant) has returned, a tenant whose
\* persisted flag is disabled has no job, and an enabled tenant has a job
\* whose interval is the configured one, or 300 when none is configured.
C16_RefreshReconciles ==
    (/\ calls # << >>
     /\ CallsDone
     /\ LastCall.op = "refresh_user_job")
    => LET t == LastCall.tenant IN
       IF get_monitoring_enabled(t)
       THEN /\ Cardinality(Timers(t)) = 1
            /\ \A j \in Timers(t) :
                  apJobs[j].interval = get_monitoring_interval_seconds(t, 300)
       ELSE Timers(t) = {} /\ t \notin DOMAIN jobs

\* A timer-driven run of tenant t has entered perform_monitoring_cycle.
CycleRan(t) ==
    \E r \in DOMAIN runs :
        runs[r].kind = "timer" /\ runs[r].tenant = t /\ Entered(r)

\* C17: once monitoring is enabled through POST /monitoring/enabled for a
\* tenant with complete credentials, a timer-driven cycle of the tenant
\* eventually runs in this process (unless monitoring is disabled again
\* first), also when start() found nothing to schedule. The obligation
\* starts in states where the behaviour has a run left to start.
C17_EnableTakesEffect ==
    \A t \in Tenants :
        (get_monitoring_enabled(t) /\ ~ConfigIncomplete(t) /\ WorkerFree)
        ~> (CycleRan(t) \/ ~get_monitoring_enabled(t))

\* C17's case: start() scheduled nothing and left the BackgroundScheduler
\* stopped, monitoring was then enabled through the API, and a timer-driven
\* cycle of the tenant has run.
C17_Witness ==
    \E t \in Tenants :
        /\ started
        /\ \E k \in DOMAIN calls :
              /\ calls[k].op = "refresh_user_job"
              /\ calls[k].tenant = t
              /\ calls[k].outcome = "added"
              /\ ~calls[k].prev.some
        /\ get_monitoring_enabled(t)
        /\ CycleRan(t)

\* The timer runs of the tenant that were submitted to the worker pool and
\* have not begun the job function.
Pending(t) ==
    {r \in DOMAIN runs :
        runs[r].kind = "timer" /\ runs[r].tenant = t /\ runs[r].pc = "job_start"}

\* The timer runs of the tenant that began the job function and have not
\* ended it.
Running(t) ==
    {r \in DOMAIN runs :
        runs[r].kind = "timer" /\ runs[r].tenant = t
        /\ runs[r].pc \notin {"job_start", "done"}}

\* C18: a tick that fires while a run of the tenant is still in flight
\* queues nothing: in every reachable state where a timer run of the
\* tenant is running, no further timer run of that tenant is waiting to
\* start.
C18_TicksCoalesced ==
    \A t \in DOMAIN cfg : Running(t) # {} => Pending(t) = {}

\* C19: stalled tenants do not block another tenant: whenever a tick of a
\* tenant whose own cycles end has submitted a run, a worker eventually
\* begins that run, whatever the runs of the stalled tenants are doing.
C19_StalledTenantIsolated ==
    \A t \in PoolTenants \ StalledTenants : (Pending(t) # {}) ~> (Pending(t) = {})

\* C20: every cycle that was started eventually finishes: no run stays
\* inside perform_monitoring_cycle forever waiting for the remote API.
C20_CycleTerminates ==
    \A r \in 1..MaxCycles :
        (r \in DOMAIN runs /\ Entered(r)) ~> (r \in DOMAIN runs /\ runs[r].pc = "done")

----------------------------------------------------------------------------
(* C21 .. C30 *)

\* The stored access token or the stored page id of the tenant is empty.
CredentialsMissing(t) == cfg[t].accessToken = "" \/ cfg[t].pageId = ""

\* C21: for a tenant whose access token or page id is missing, no run ever
\* enters a cycle or issues a remote call, whether a tick or a manual
\* trigger asked for it; and the step that ends such a run starts no other
\* run in its place.
C21_ConfigErrorAborts ==
    /\ [](\A r \in DOMAIN runs :
            CredentialsMissing(runs[r].tenant) =>
                /\ runs[r].svc = 0
                /\ runs[r].pc \in {"job_start", "done"}
                /\ runs[r].result \in {"none", "disabled", "unconfigured"}
                /\ {e \in events : e.run = r} = {})
    /\ [][\A r \in DOMAIN runs :
            (runs[r].pc = "job_start" /\ runs'[r].result = "unconfigured")
                => Len(runs') = Len(runs)]_vars

\* A tick of an enabled tenant whose page id is empty ended without a
\* cycle, and a later tick was submitted.
C21_Witness ==
    \E r \in DOMAIN runs :
        /\ cfg[runs[r].tenant].pageId = ""
        /\ runs[r].result = "unconfigured"
        /\ Len(runs) > r

\* The scheduling calls that are between remove_job and add_job of
\* _schedule_user_job (lines 99-105).
InSection == {k \in DOMAIN calls : calls[k].pc = "add"}

\* C22: the mutations of the tenant-to-job map are serialized: at most one
\* thread at a time is inside the remove-then-add section of
\* _schedule_user_job.
C22_RegistrySerialized == Cardinality(InSection) <= 1

\* C23: a submitted tick that a worker takes no more than 30 seconds after
\* its run time is executed; one taken later than that is dropped and its
\* job function never called; and when several run times are due at once
\* at most one run is submitted for them.
C23_MisfirePolicy ==
    /\ [][\A r \in DOMAIN runs :
            (runs[r].pc = "job_start" /\ runs'[r].pc # "job_start")
                => IF now - runs[r].run_time <= 30
                   THEN runs'[r].result # "missed" /\ runs'[r].pc = "begin"
                   ELSE runs'[r].result = "missed" /\ runs'[r].pc = "done"]_vars
    /\ [][Len(runs') <= Len(runs) + 1]_vars
    /\ [](\A r \in DOMAIN runs : runs[r].result = "missed" => runs[r].svc = 0)

\* One run was taken exactly 30 seconds late and began the job function,
\* another stood for several missed run times and was dropped.
C23_Witness ==
    \E r1, r2 \in DOMAIN runs :
        /\ runs[r1].pc = "begin"
        /\ runs[r2].result = "missed"
        /\ runs[r2].run_time >= 601
        /\ now - runs[r1].run_time = 30

\* C24: after start() returned, the tenants with a job are exactly the
\* enumerated (user, page) tenants whose monitoring is enabled, a user
\* with no page-scoped rows or an empty page id being enumerated under the
\* page id "default".
C24_BootstrapSchedulesEnabled ==
    started =>
        /\ \A t \in BootTenants :
              /\ job_id(t) \in DOMAIN apJobs <=> get_monitoring_enabled(t)
              /\ t \in DOMAIN jobs <=> get_monitoring_enabled(t)
        /\ \A j \in DOMAIN apJobs : apJobs[j].tenant \in BootTenants
        /\ DOMAIN jobs \subseteq BootTenants

\* The reels of the fetched list that have an enabled rule of the run's
\* tenant.
EnabledReels(r) ==
    {x \in Range(RemoteReels) :
        /\ x \in DOMAIN rulesDb[runs[r].tenant]
        /\ rulesDb[runs[r].tenant][x].enabled}

\* The comments fetched for those reels.
FetchedComments(r) == UNION {Range(RemoteComments(x)) : x \in EnabledReels(r)}

\* No remote call of the run failed or was refused as a duplicate.
NoFailure(r) == \A e \in events : e.run = r => e.out \notin {"error", "duplicate"}

\* The run passed the comment over: the page wrote it, an earlier cycle on
\* the service had marked it, or this cycle found it answered by the page.
Skipped(r, c) ==
    \/ Author(c) = runs[r].page_id
    \/ \E e \in events :
          /\ e.id = c
          /\ e.op = "mark"
          /\ (e.run < r \/ (e.run = r /\ e.out \in {"nested", "check"}))

\* The comments of the run that were not passed over and match the rule of
\* their reel.
Answerable(r) ==
    {c \in FetchedComments(r) :
        /\ ~Skipped(r, c)
        /\ Matches(Message(c), rulesDb[runs[r].tenant][ReelOf(c)])}

\* C25: the summary of a cycle in which no remote call failed counts the
\* fetched reels that have an enabled rule, the comments fetched for them,
\* the comments that were not skipped and matched their reel's rule, and
\* those of them whose rule has an inbox_message.
C25_SummaryCounts ==
    \A r \in DOMAIN runs :
        (runs[r].result = "summary" /\ NoFailure(r)) =>
            /\ runs[r].summary.reels = Cardinality(EnabledReels(r))
            /\ runs[r].summary.comments = Cardinality(FetchedComments(r))
            /\ runs[r].summary.replies = Cardinality(Answerable(r))
            /\ runs[r].summary.inbox =
                  Cardinality({c \in Answerable(r) :
                      Truthy(rulesDb[runs[r].tenant][ReelOf(c)].inbox_message)})

\* The spec's example: only the rule of R1 (keyword "price") is enabled,
\* its comments are "PRICE?" and "nice", no call failed: reels 1, comments
\* 2, replies 1, inbox 0.
C25_Witness ==
    \E r \in DOMAIN runs :
        /\ runs[r].result = "summary"
        /\ NoFailure(r)
        /\ EnabledReels(r) = {"R1"}
        /\ runs[r].summary.reels = 1
        /\ runs[r].summary.comments = 2
        /\ runs[r].summary.replies = 1
        /\ runs[r].summary.inbox = 0

\* The rule matches every comment: no keywords, or the token "." among them.
Wildcard(rule) == rule.match_words = << >> \/ <<".">> \in Range(rule.match_words)

\* The step is the rule match of run r.
MatchStep(r) == runs[r].pc = "match" /\ runs'[r] # runs[r]

\* C26: a rule whose match_words is empty or contains "." matches any
\* comment text, the empty text included, whatever its other keywords:
\* the rule match of such a rule always goes on to the reply.
C26_WildcardMatches ==
    [][\A r \in DOMAIN runs :
          (MatchStep(r) /\ Wildcard(CurRule(r))) => runs'[r].pc = "reply"]_vars

\* The comment with the empty text was answered under a rule whose keywords
\* are "zz" and ".".
C26_Witness ==
    \E r \in DOMAIN runs :
        /\ Message("c3") = << >>
        /\ runs[r].rules["R2"].match_words = << <<"z", "z">>, <<".">> >>
        /\ Ev(r, "c3", "reply", "ok") \in events

\* The two characters are the same letter in either case.
FoldEq(a, b) ==
    \/ a = b
    \/ {a, b} \in {{"P", "p"}, {"R", "r"}, {"I", "i"}, {"C", "c"}, {"E", "e"},
                   {"N", "n"}}

\* The keyword occurs in the text, case ignored.
Occurs(text, keyword) ==
    \E i \in 0..Len(text) :
        /\ i + Len(keyword) <= Len(text)
        /\ \A j \in 1..Len(keyword) : FoldEq(text[i + j], keyword[j])

\* C27: for a rule with keywords and no ".", the rule match goes on to the
\* reply if and only if some keyword occurs in the comment text, case
\* ignored.
C27_SubstringMatch ==
    [][\A r \in DOMAIN runs :
          (MatchStep(r) /\ ~Wildcard(CurRule(r))) =>
              (runs'[r].pc = "reply" <=>
                  \E k \in DOMAIN CurRule(r).match_words :
                      Occurs(Message(CurComment(r).id), CurRule(r).match_words[k]))]_vars

\* Under the keywords "zz" and "NICE" the comment "nice" was answered and
\* the comment "PRICE?" was matched against the rule and not answered.
C27_Witness ==
    \E r \in DOMAIN runs :
        /\ runs[r].rules["R1"].match_words = << <<"z", "z">>, <<"N", "I", "C", "E">> >>
        /\ Ev(r, "c2", "reply", "ok") \in events
        /\ Ev(r, "c1", "match", "") \in events
        /\ \A e \in events : (e.run = r /\ e.id = "c1") => e.op # "reply"

\* C28: a reel of the fetched list that has no enabled rule is never fetched
\* for comments, is not counted as processed, and none of its comments is
\* checked, answered or messaged.
C28_UnruledReelSkipped ==
    \A r \in DOMAIN runs :
        /\ runs[r].reels_processed <= Cardinality(EnabledReels(r))
        /\ \A x \in Range(RemoteReels) \ EnabledReels(r) :
              /\ \A e \in events : e.run = r => e.id # x
              /\ \A c \in Range(RemoteComments(x)) :
                    \A e \in events : e.run = r => e.id # c

\* A cycle fetched the list with R1 (rule enabled), R3 (no rule) and R2
\* (rule disabled), fetched the comments of R1 and returned its summary.
C28_Witness ==
    \E r \in DOMAIN runs :
        /\ runs[r].result = "summary"
        /\ runs[r].reels = RemoteReels
        /\ EnabledReels(r) = {"R1"}
        /\ "R2" \in DOMAIN runs[r].rules
        /\ "R3" \notin DOMAIN runs[r].rules
        /\ Ev(r, "R1", "get_comments", "ok") \in events
        /\ runs[r].summary.reels = 1

\* C29: every job in the store has an interval of at least one second,
\* whatever set-interval, reschedule, refresh and start operations ran.
C29_IntervalAtLeastOne ==
    /\ \A j \in DOMAIN apJobs : apJobs[j].interval >= 1
    /\ \A t \in DOMAIN jobs : jobs[t].interval >= 1

\* The step begins the job function of run r (the tick starts).
TickStarts(r) == runs[r].pc = "job_start" /\ runs'[r].pc # "job_start"

\* C30: a tick that finds the tenant's monitoring flag false when it starts
\* ends there, whether or not a job is still installed: it builds no
\* service, loads no rules, issues no remote call and leaves last_run as
\* it was; no run that ended so has a remote call in the history.
C30_DisabledTickInert ==
    /\ [][\A r \in DOMAIN runs :
            (TickStarts(r) /\ ~cfg[runs[r].tenant].monitoringEnabled) =>
                /\ runs'[r].pc = "done"
                /\ runs'[r].svc = 0
                /\ runs'[r].rules = << >>
                /\ services' = services
                /\ last_run' = last_run
                /\ events' = events
                /\ thread' = thread]_vars
    /\ [](\A r \in DOMAIN runs :
            runs[r].result = "disabled" =>
                /\ runs[r].pc = "done"
                /\ runs[r].api_calls = 0
                /\ {e \in events : e.run = r} = {})

\* A tick started after the flag was set to false and before the refresh
\* removed the tenant's job: the job is still installed, the run ended
\* without a cycle and last_run has no entry.
C30_Witness ==
    \E r \in DOMAIN runs :
        /\ runs[r].result = "disabled"
        /\ ~cfg[runs[r].tenant].monitoringEnabled
        /\ job_id(runs[r].tenant) \in DOMAIN apJobs
        /\ last_run[runs[r].tenant] = 0

----------------------------------------------------------------------------
(* C31 .. C39 *)

\* The remote has-replied calls sent for comment c through service svc.
ChecksSent(svc, c) ==
    {e \in events : e.op = "check" /\ e.id = c /\ runs[e.run].svc = svc}

\* The step sends a remote has-replied call of run r.
CheckSent(r) == \E e \in events' \ events : e.run = r /\ e.op = "check"

\* C31: a remote has-replied call is sent for a comment only when the
\* nested replies fetched with it hold no reply of the page and its
\* reply_count is present and exceeds their number; the answer, true or
\* false, is stored in the service's cache and decides whether the comment
\* is passed over; and one service sends at most one such call per comment
\* id.
C31_TwoTierCheck ==
    /\ [][\A r \in DOMAIN runs :
            CheckSent(r) =>
                LET comment == CurComment(r)
                    cache == services'[runs[r].svc].comment_reply_cache
                IN /\ runs[r].page_id \notin Range(comment.replies)
                   /\ comment.reply_count.some
                   /\ comment.reply_count.val > Len(comment.replies)
                   /\ comment.id \in DOMAIN cache
                   /\ cache[comment.id] <=> runs'[r].pc # "match"]_vars
    /\ [](\A svc \in DOMAIN services, c \in CommentIds :
            Cardinality(ChecksSent(svc, c)) <= 1)

\* A second cycle on the same service is about to answer a comment whose
\* replies were truncated: the first cycle sent the remote check, which
\* failed, this one used the cached answer and sent none.
C31_Witness ==
    \E r1, r2 \in DOMAIN runs :
        /\ r1 # r2
        /\ runs[r1].svc = runs[r2].svc
        /\ Ev(r1, "c1", "check", "error") \in events
        /\ runs[r2].pc = "reply"
        /\ CurComment(r2).id = "c1"
        /\ CurComment(r2).reply_count.val > Len(CurComment(r2).replies)
        /\ \A e \in events : ~(e.run = r2 /\ e.op = "check")

\* The step ends run r with an exception.
Raises(r) == runs[r].result # "raised" /\ runs'[r].result = "raised"

\* C32: an exception raised in a timer-driven run (by the configuration
\* or rule reads of the job function, the reel fetch or a comment fetch)
\* ends inside the job function, which returns; the step leaves the
\* registry and the job store as they were, and afterwards the tenant's
\* job is installed with the interval it had and can fire again.
C32_CycleErrorContained ==
    /\ [][\A r \in DOMAIN runs :
            (runs[r].kind = "timer" /\ Raises(r)) =>
                /\ runs'[r].pc = "done"
                /\ UNCHANGED <<jobs, apJobs, schedRunning, last_run>>]_vars
    /\ [](\A r \in DOMAIN runs :
            (runs[r].kind = "timer" /\ runs[r].result = "raised") =>
                LET t == runs[r].tenant IN
                /\ ~InFlight(r)
                /\ t \in DOMAIN jobs
                /\ job_id(t) \in DOMAIN apJobs
                /\ apJobs[job_id(t)].interval = DEFAULT_INTERVAL_SECONDS
                /\ WorkerFree => ENABLED Tick(t))

\* One timer-driven run was ended by a failed comment fetch and a later
\* one by a failed read at the start of the job function; the tenant's job
\* is installed.
C32_Witness ==
    \E r1, r2 \in DOMAIN runs :
        /\ r1 < r2
        /\ runs[r1].kind = "timer" /\ runs[r2].kind = "timer"
        /\ runs[r1].tenant = runs[r2].tenant
        /\ runs[r1].result = "raised" /\ runs[r2].result = "raised"
        /\ \E reel \in Range(RemoteReels) : Ev(r1, reel, "get_comments", "error") \in events
        /\ runs[r2].svc = 0
        /\ job_id(runs[r1].tenant) \in DOMAIN apJobs

\* Some request was made, every scheduling call has returned, and all of
\* them were made by the handler whose scheduler method is op.
AllReturned(op) ==
    /\ calls # << >>
    /\ CallsDone
    /\ \A k \in DOMAIN calls : calls[k].op = op

\* C33: once every one of a set of POST /monitoring/enabled requests for a
\* tenant has returned, concurrent or not, the tenant has a job in the
\* registry and in the job store exactly when its persisted flag is true.
C33_EnabledRequestsConverge ==
    AllReturned("refresh_user_job") =>
        \A t \in DOMAIN cfg :
            /\ t \in DOMAIN jobs <=> get_monitoring_enabled(t)
            /\ Timers(t) # {} <=> get_monitoring_enabled(t)

\* C34: once every one of a set of POST /monitoring/interval requests for
\* an enabled tenant has returned, concurrent or not, the interval of the
\* tenant's installed job is the persisted monitoringIntervalSeconds.
C34_IntervalRequestsConverge ==
    AllReturned("reschedule") =>
        \A t \in DOMAIN cfg :
            get_monitoring_enabled(t) =>
                /\ Timers(t) # {}
                /\ \A j \in Timers(t) :
                      apJobs[j].interval = get_monitoring_interval_seconds(t, 300)
                /\ t \in DOMAIN jobs
                /\ jobs[t].interval = get_monitoring_interval_seconds(t, 300)

\* C35: whenever no scheduling call is in progress, a tenant is a key of
\* the registry's jobs map exactly when a job with the tenant's job id is
\* in the scheduler's job store, also after an add_job that failed once
\* the previous job had been removed.
C35_RegistryConsistent ==
    CallsDone =>
        \A t \in DOMAIN cfg : t \in DOMAIN jobs <=> job_id(t) \in DOMAIN apJobs

\* C36: a scheduling call goes on from its configuration reads to install
\* a job only when the tenant's monitoring flag is true at that read, and
\* a call that has installed a job did so for a tenant whose flag is true;
\* a call whose configuration read failed installs nothing.
C36_TimerOnlyWhenFlagRead ==
    /\ [][\A k \in DOMAIN calls :
            (calls[k].pc = "read" /\ calls'[k].pc = "replace")
                => get_monitoring_enabled(calls[k].tenant)]_vars
    /\ []((calls # << >> /\ CallsDone /\ LastCall.outcome = "added")
            => get_monitoring_enabled(LastCall.tenant))

\* The step is the return of a timer-driven cycle of tenant t that did not
\* raise: the job function is past its call of perform_monitoring_cycle.
CycleReturns(t) ==
    \E r \in DOMAIN runs :
        /\ runs[r].kind = "timer"
        /\ runs[r].tenant = t
        /\ runs[r].pc = "returned"
        /\ runs[r].result \in {"summary", "zero"}
        /\ runs'[r].pc = "done"

\* C37: last_run of a tenant changes only in the step that ends a
\* timer-driven cycle of that tenant which returned without raising, and
\* that step changes no other tenant's entry; so a tenant has an entry only
\* if such a cycle of its own has ended, whatever skipped ticks, raised
\* exceptions, manual triggers and scheduling calls there were.
C37_LastRunBookkeeping ==
    /\ [][\A t \in DOMAIN cfg :
            last_run'[t] # last_run[t] =>
                /\ CycleReturns(t)
                /\ \A u \in DOMAIN cfg \ {t} : last_run'[u] = last_run[u]]_vars
    /\ [](\A t \in DOMAIN cfg :
            last_run[t] # 0 =>
                \E r \in DOMAIN runs :
                    /\ runs[r].kind = "timer"
                    /\ runs[r].tenant = t
                    /\ runs[r].pc = "done"
                    /\ runs[r].result \in {"summary", "zero"})

\* A timer-driven cycle of the first tenant has returned and its last_run
\* is written; the second tenant, whose manual cycle has returned and
\* whose schedule was left alone, has no entry, and a scheduling call for
\* the first tenant has returned since.
C37_Witness ==
    \E r1, r2 \in DOMAIN runs :
        /\ runs[r1].kind = "timer" /\ runs[r1].tenant = T1
        /\ runs[r1].result = "summary" /\ runs[r1].pc = "done"
        /\ runs[r2].kind = "manual" /\ runs[r2].tenant = T2
        /\ runs[r2].result = "zero" /\ runs[r2].pc = "done"
        /\ last_run[T1] # 0
        /\ last_run[T2] = 0
        /\ calls # << >> /\ CallsDone

\* The remote calls run r issued after the reel list: comment fetches,
\* has-replied checks, public and private reply attempts.
CallsIssued(r) ==
    {e \in events :
        e.run = r /\ e.op \in {"get_comments", "check", "reply", "inbox"}}

C39_SummaryOrdering ==
    \A r \in DOMAIN runs :
        runs[r].result \in {"summary", "zero"} =>
            LET s == runs[r].summary IN
            /\ 0 <= s.inbox
            /\ s.inbox <= s.replies
            /\ s.replies <= s.comments
            /\ s.reels <= Len(runs[r].reels)
            /\ s.replies <= Cardinality(MarkedBy(r))

\* A cycle over three fetched reels of which two have an enabled rule: four
\* comments, one reply posted and followed by a private reply, and a
\* second comment id marked because the page had answered it.
C39_Witness ==
    \E r \in DOMAIN runs :
        /\ runs[r].result = "summary"
        /\ Len(runs[r].reels) = 3
        /\ runs[r].summary.reels = 2
        /\ runs[r].summary.comments = 4
        /\ runs[r].summary.replies = 1
        /\ runs[r].summary.inbox = 1
        /\ Cardinality(MarkedBy(r)) = 2

=============================================================================
